---- MODULE Spec2Model ----
(***************************************************************************)
(* Tow-truck dispatch backend: the order service's commit dispatch         *)
(* (create_dispatcher_order), order creation (create_client_order), status *)
(* update, order lookup and listing over the order / tow-truck / user      *)
(* stores, Graph::dijkstra, and get_nearest_available_tow_trucks with its  *)
(* selection loop.                                                         *)
(*                                                                         *)
(* Seven specifications share the module:                                  *)
(*   Spec          concurrent service tasks over the shared stores         *)
(*   SeqSpec       the same operations, one request at a time, with the    *)
(*                 stores as they were when the request began kept in pre  *)
(*   StatusSpec    SeqSpec with update_order_status                        *)
(*   DijkstraSpec  Graph::dijkstra on every bounded graph and start node   *)
(*   SelectSpec    the selection loop on every bounded distance map and    *)
(*                 candidate list                                          *)
(*   NearestSpec   get_nearest_available_tow_trucks from its first read to *)
(*                 its return, over bounded stores and road maps           *)
(*   ListingSpec   get_order_by_id and get_paginated_orders over bounded   *)
(*                 orders, users, dispatchers and trucks                   *)
(***************************************************************************)
EXTENDS Integers, Sequences, FiniteSets, TLC

(***************************************************************************)
(* Bounds of the model.                                                    *)
(***************************************************************************)
MaxOps == 3        \* service operations started in one behaviour
MaxOrders == 2     \* rows the orders table can hold (ids 1..MaxOrders)

Tasks == {1, 2}                 \* concurrent request handlers
InitialOrders == {1}            \* orders present at start, pending
TowTruckIds == {1, 2}
DispatcherIds == {1}
ClientIds == {1}
CarValues == {1}
Times == {1}                    \* DateTime<Utc> values a caller passes
AreaOfNode == (1 :> 1) @@ (2 :> 1)      \* the nodes table: node id -> area id
RequestNodeIds == {1, 3}        \* node ids a client sends; 3 is in no area

(***************************************************************************)
(* Option<T> and Result<(), AppError>.                                     *)
(***************************************************************************)
None == << >>
Some(x) == <<x>>

Errors == {"BadRequest", "InternalServerError"}
Ok == <<"Ok">>
Err(e) == <<"Err", e>>
IsErr(r) == Len(r) = 2

VARIABLES
    orders,             \* orders table: id -> row (ids are 1..Len)
    tow_trucks,         \* tow_trucks table: id -> row
    completed_orders,   \* completed_orders table, in insertion order
    pc,                 \* per task: the await point it is at
    args,               \* per task: the arguments of the running operation
    result,             \* per task: what the operation returned
    calls,              \* per task: repository calls made, with outcomes
    pre,                \* per task: the stores when the operation began (SeqSpec only)
    ops,                \* operations started so far
    edges,              \* Graph.edges: node id -> its outgoing edges, in insertion order
    start_node_id,      \* dijkstra's argument
    distances,          \* dijkstra's distances map
    heap,               \* dijkstra's BinaryHeap<State>, as the sequence of its entries
    dj_pc,              \* where dijkstra is: "off", "call", "loop", "done", "panic"
    distances_from_order,   \* the selection's distance map
    candidate_trucks,   \* the selection's tow_trucks list
    truck_idx,          \* the next list position of `for truck in tow_trucks`
    nearest_truck,      \* Option<TowTruck>
    min_distance,
    min_truck_id,
    nearest_tow_truck,  \* the block's value, once the loop is done
    sel_pc,             \* where the selection is: "off", "loop", "done"
    edge_table,         \* edges table of the map store, in row order
    order,              \* get_nearest_available_tow_trucks: the order it loaded
    area_id,            \* get_nearest_available_tow_trucks: the area it resolved
    nodes,              \* get_nearest_available_tow_trucks: the area's nodes it loaded
    users,              \* users table: id -> row
    dispatchers         \* dispatchers table: id -> row

dispatchVars == <<orders, tow_trucks, completed_orders, pc, args, result, calls, pre, ops>>
dijkstraVars == <<edges, start_node_id, distances, heap, dj_pc>>

selectVars == <<distances_from_order, candidate_trucks, truck_idx, nearest_truck,
                min_distance, min_truck_id, nearest_tow_truck, sel_pc>>

nearestVars == <<edge_table, order, area_id, nodes>>

authVars == <<users, dispatchers>>

vars == <<dispatchVars, dijkstraVars, selectVars, nearestVars, authVars>>

(***************************************************************************)
(* Repository writes (each a single SQL statement).                        *)
(***************************************************************************)
\* Mutant: the insert is skipped when the order already has a completion record.
create_completed_order_once(co, order_id, tow_truck_id, completed_time) ==
    IF \E i \in DOMAIN co : co[i].order_id = order_id
    THEN co
    ELSE Append(co, [order_id |-> order_id, tow_truck_id |-> tow_truck_id,
                     completed_time |-> completed_time])

\* INSERT INTO completed_orders (order_id, tow_truck_id, completed_time)
create_completed_order(co, order_id, tow_truck_id, completed_time) ==
    Append(co, [order_id |-> order_id, tow_truck_id |-> tow_truck_id,
                completed_time |-> completed_time])

\* Mutant: the update leaves the order's tow_truck_id as it was.
update_order_dispatched_no_truck(os, id, dispatcher_id, tow_truck_id) ==
    [i \in DOMAIN os |->
        IF i = id
        THEN [os[i] EXCEPT !.dispatcher_id = Some(dispatcher_id),
                           !.status = "dispatched"]
        ELSE os[i]]

\* Mutant: the update has no WHERE clause.
update_order_dispatched_all_rows(os, id, dispatcher_id, tow_truck_id) ==
    [i \in DOMAIN os |->
        [os[i] EXCEPT !.dispatcher_id = Some(dispatcher_id),
                      !.tow_truck_id = Some(tow_truck_id),
                      !.status = "dispatched"]]

\* UPDATE orders SET dispatcher_id = ?, tow_truck_id = ?, status = 'dispatched' WHERE id = ?
update_order_dispatched(os, id, dispatcher_id, tow_truck_id) ==
    [i \in DOMAIN os |->
        IF i = id
        THEN [os[i] EXCEPT !.dispatcher_id = Some(dispatcher_id),
                           !.tow_truck_id = Some(tow_truck_id),
                           !.status = "dispatched"]
        ELSE os[i]]

\* TowTruckRepository::update_status: set the status of the truck with that id
update_status(ts, truck_id, status) ==
    [i \in DOMAIN ts |-> IF i = truck_id THEN [ts[i] EXCEPT !.status = status] ELSE ts[i]]

\* SELECT area_id FROM nodes WHERE id = ? (fetch_one: no row is an error)
NodeKnown(node_id) == node_id \in DOMAIN AreaOfNode

\* orders.order_time is set by the database when the row is inserted.
OrderTime == CHOOSE x \in Times : TRUE

\* INSERT INTO orders (client_id, node_id, area_id, status, car_value) VALUES (?, ?, ?, 'pending', ?)
create_order(os, client_id, node_id, car_value) ==
    Append(os, [client_id |-> client_id, node_id |-> node_id,
                area_id |-> AreaOfNode[node_id], status |-> "pending",
                car_value |-> car_value, dispatcher_id |-> None,
                tow_truck_id |-> None, order_time |-> OrderTime,
                completed_time |-> None])

(***************************************************************************)
(* Initial stores.                                                         *)
(***************************************************************************)
InitOrders ==
    [i \in InitialOrders |->
        [client_id |-> 1, node_id |-> 1, area_id |-> AreaOfNode[1],
         status |-> "pending", car_value |-> 1, dispatcher_id |-> None,
         tow_truck_id |-> None, order_time |-> OrderTime, completed_time |-> None]]

InitTowTrucks ==
    [i \in TowTruckIds |->
        [driver_id |-> i, node_id |-> i, area_id |-> AreaOfNode[i],
         status |-> "available"]]

Stores == [orders |-> orders, tow_trucks |-> tow_trucks,
           completed_orders |-> completed_orders]

DispatchInit ==
    /\ orders = InitOrders
    /\ tow_trucks = InitTowTrucks
    /\ completed_orders = << >>
    /\ pc = [t \in Tasks |-> "idle"]
    /\ args = [t \in Tasks |-> << >>]
    /\ result = [t \in Tasks |-> << >>]
    /\ calls = [t \in Tasks |-> << >>]
    /\ pre = [t \in Tasks |-> << >>]
    /\ ops = 0

\* No shortest-path computation is running.
DijkstraOff ==
    /\ edges = << >>
    /\ start_node_id = 0
    /\ distances = << >>
    /\ heap = << >>
    /\ dj_pc = "off"

\* No selection is running.
SelectOff ==
    /\ distances_from_order = << >>
    /\ candidate_trucks = << >>
    /\ truck_idx = 0
    /\ nearest_truck = None
    /\ min_distance = 0
    /\ min_truck_id = 0
    /\ nearest_tow_truck = None
    /\ sel_pc = "off"

\* No nearest-truck search is running.
NearestOff ==
    /\ edge_table = << >>
    /\ order = << >>
    /\ area_id = 0
    /\ nodes = {}

\* The users and dispatchers tables are not read.
AuthOff ==
    /\ users = << >>
    /\ dispatchers = << >>

Init == DispatchInit /\ DijkstraOff /\ SelectOff /\ NearestOff /\ AuthOff

(***************************************************************************)
(* OrderService::create_dispatcher_order, one action per await point.      *)
(***************************************************************************)
Logged(t, call, outcome) ==
    calls' = [calls EXCEPT ![t] = Append(@, [call |-> call, outcome |-> outcome])]

Returns(t, r) ==
    /\ pc' = [pc EXCEPT ![t] = "done"]
    /\ result' = [result EXCEPT ![t] = r]

\* A request create_dispatcher_order(order_id, dispatcher_id, tow_truck_id, order_time)
\* arrives and runs to its first await:
\* if (create_completed_order(..).await).is_err() { return Err(AppError::BadRequest) }
dispatch_create_completed_order(t, a, p) ==
    /\ pc[t] = "idle"
    /\ pre' = [pre EXCEPT ![t] = p]
    /\ ops < MaxOps
    /\ ops' = ops + 1
    /\ args' = [args EXCEPT ![t] = a]
    /\ \/ /\ completed_orders' = create_completed_order(completed_orders, a.order_id,
                                        a.tow_truck_id, a.order_time)
          /\ Logged(t, "create_completed_order", Ok)
          /\ pc' = [pc EXCEPT ![t] = "update_order_dispatched"]
          /\ UNCHANGED <<orders, tow_trucks, result>>
       \/ /\ \E e \in Errors :
                /\ Logged(t, "create_completed_order", Err(e))
                /\ Returns(t, Err("BadRequest"))
          /\ UNCHANGED <<orders, tow_trucks, completed_orders>>
    /\ UNCHANGED <<dijkstraVars, selectVars, nearestVars>>
    /\ UNCHANGED authVars

\* Mutant: a failed update_order_dispatched deletes the completion record again.
dispatch_update_order_dispatched_rollback(t) ==
    /\ pc[t] = "update_order_dispatched"
    /\ \/ /\ orders' = update_order_dispatched(orders, args[t].order_id,
                                        args[t].dispatcher_id, args[t].tow_truck_id)
          /\ Logged(t, "update_order_dispatched", Ok)
          /\ pc' = [pc EXCEPT ![t] = "update_status"]
          /\ UNCHANGED <<tow_trucks, completed_orders, result>>
       \/ /\ \E e \in Errors :
                /\ Logged(t, "update_order_dispatched", Err(e))
                /\ Returns(t, Err(e))
          /\ completed_orders' = SubSeq(completed_orders, 1, Len(completed_orders) - 1)
          /\ UNCHANGED <<orders, tow_trucks>>
    /\ UNCHANGED <<args, pre, ops>>
    /\ UNCHANGED <<dijkstraVars, selectVars, nearestVars>>
    /\ UNCHANGED authVars

\* Mutant: a failed update_order_dispatched is reported as BadRequest.
dispatch_update_order_dispatched_bad_request(t) ==
    /\ pc[t] = "update_order_dispatched"
    /\ \/ /\ orders' = update_order_dispatched(orders, args[t].order_id,
                                        args[t].dispatcher_id, args[t].tow_truck_id)
          /\ Logged(t, "update_order_dispatched", Ok)
          /\ pc' = [pc EXCEPT ![t] = "update_status"]
          /\ UNCHANGED <<tow_trucks, completed_orders, result>>
       \/ /\ \E e \in Errors :
                /\ Logged(t, "update_order_dispatched", Err(e))
                /\ Returns(t, Err("BadRequest"))
          /\ UNCHANGED <<orders, tow_trucks, completed_orders>>
    /\ UNCHANGED <<args, pre, ops>>
    /\ UNCHANGED <<dijkstraVars, selectVars, nearestVars>>
    /\ UNCHANGED authVars

\* update_order_dispatched(order_id, dispatcher_id, tow_truck_id).await?
dispatch_update_order_dispatched(t) ==
    /\ pc[t] = "update_order_dispatched"
    /\ \/ /\ orders' = update_order_dispatched(orders, args[t].order_id,
                                        args[t].dispatcher_id, args[t].tow_truck_id)
          /\ Logged(t, "update_order_dispatched", Ok)
          /\ pc' = [pc EXCEPT ![t] = "update_status"]
          /\ UNCHANGED <<tow_trucks, completed_orders, result>>
       \/ /\ \E e \in Errors :
                /\ Logged(t, "update_order_dispatched", Err(e))
                /\ Returns(t, Err(e))
          /\ UNCHANGED <<orders, tow_trucks, completed_orders>>
    /\ UNCHANGED <<args, pre, ops>>
    /\ UNCHANGED <<dijkstraVars, selectVars, nearestVars>>
    /\ UNCHANGED authVars

\* Mutant: the truck is marked busy only if it is still available; otherwise
\* the commit is rejected without a repository write.
dispatch_update_status_if_available(t) ==
    /\ pc[t] = "update_status"
    /\ \/ /\ tow_trucks[args[t].tow_truck_id].status = "available"
          /\ tow_trucks' = update_status(tow_trucks, args[t].tow_truck_id, "busy")
          /\ Logged(t, "update_status", Ok)
          /\ Returns(t, Ok)
          /\ UNCHANGED <<orders, completed_orders>>
       \/ /\ tow_trucks[args[t].tow_truck_id].status # "available"
          /\ Returns(t, Err("BadRequest"))
          /\ UNCHANGED <<orders, tow_trucks, completed_orders, calls>>
       \/ /\ \E e \in Errors :
                /\ Logged(t, "update_status", Err(e))
                /\ Returns(t, Err(e))
          /\ UNCHANGED <<orders, tow_trucks, completed_orders>>
    /\ UNCHANGED <<args, pre, ops>>
    /\ UNCHANGED <<dijkstraVars, selectVars, nearestVars>>
    /\ UNCHANGED authVars

\* update_status(tow_truck_id, "busy").await?; Ok(())
dispatch_update_status(t) ==
    /\ pc[t] = "update_status"
    /\ \/ /\ tow_trucks' = update_status(tow_trucks, args[t].tow_truck_id, "busy")
          /\ Logged(t, "update_status", Ok)
          /\ Returns(t, Ok)
          /\ UNCHANGED <<orders, completed_orders>>
       \/ /\ \E e \in Errors :
                /\ Logged(t, "update_status", Err(e))
                /\ Returns(t, Err(e))
          /\ UNCHANGED <<orders, tow_trucks, completed_orders>>
    /\ UNCHANGED <<args, pre, ops>>
    /\ UNCHANGED <<dijkstraVars, selectVars, nearestVars>>
    /\ UNCHANGED authVars

(***************************************************************************)
(* OrderService::create_client_order.                                      *)
(***************************************************************************)
\* A request create_client_order(client_id, node_id, car_value) arrives:
\* match create_order(..).await { Ok(_) => Ok(()), Err(_) => Err(AppError::BadRequest) }
client_create_order(t, a, p) ==
    /\ pc[t] = "idle"
    /\ pre' = [pre EXCEPT ![t] = p]
    /\ ops < MaxOps
    /\ ops' = ops + 1
    /\ args' = [args EXCEPT ![t] = a]
    /\ \/ /\ NodeKnown(a.node_id)
          /\ Len(orders) < MaxOrders
          /\ orders' = create_order(orders, a.client_id, a.node_id, a.car_value)
          /\ Logged(t, "create_order", Ok)
          /\ Returns(t, Ok)
       \/ /\ \E e \in Errors :
                /\ Logged(t, "create_order", Err(e))
                /\ Returns(t, Err("BadRequest"))
          /\ UNCHANGED orders
    /\ UNCHANGED <<tow_trucks, completed_orders>>
    /\ UNCHANGED <<dijkstraVars, selectVars, nearestVars>>
    /\ UNCHANGED authVars

\* the response is delivered and the task takes the next request
return_to_caller(t) ==
    /\ pc[t] = "done"
    /\ pc' = [pc EXCEPT ![t] = "idle"]
    /\ args' = [args EXCEPT ![t] = << >>]
    /\ result' = [result EXCEPT ![t] = << >>]
    /\ calls' = [calls EXCEPT ![t] = << >>]
    /\ pre' = [pre EXCEPT ![t] = << >>]
    /\ UNCHANGED <<orders, tow_trucks, completed_orders, ops>>
    /\ UNCHANGED <<dijkstraVars, selectVars, nearestVars>>
    /\ UNCHANGED authVars

DispatchArgs ==
    [op : {"create_dispatcher_order"}, order_id : 1..MaxOrders,
     dispatcher_id : DispatcherIds, tow_truck_id : TowTruckIds, order_time : Times]

ClientArgs ==
    [op : {"create_client_order"}, client_id : ClientIds, node_id : RequestNodeIds,
     car_value : CarValues]

Next ==
    \E t \in Tasks :
        \/ \E a \in DispatchArgs : dispatch_create_completed_order(t, a, << >>)
        \/ \E a \in ClientArgs : client_create_order(t, a, << >>)
        \/ dispatch_update_order_dispatched(t)
        \/ dispatch_update_status(t)
        \/ return_to_caller(t)

Spec == Init /\ [][Next]_vars

(***************************************************************************)
(* One request at a time: a request begins only when no other is running,  *)
(* and the stores at that moment are kept in pre.                          *)
(***************************************************************************)
NoneRunning == \A u \in Tasks : pc[u] = "idle"

SeqNext ==
    \E t \in Tasks :
        \/ \E a \in DispatchArgs : NoneRunning /\ dispatch_create_completed_order(t, a, Stores)
        \/ \E a \in ClientArgs : NoneRunning /\ client_create_order(t, a, Stores)
        \/ dispatch_update_order_dispatched(t)
        \/ dispatch_update_status(t)
        \/ return_to_caller(t)

SeqSpec == Init /\ [][SeqNext]_vars

(***************************************************************************)
(* Reading a task's state.                                                 *)
(***************************************************************************)
Committing(t) == pc[t] # "idle" /\ args[t].op = "create_dispatcher_order"
LastCall(t) == calls[t][Len(calls[t])]
NoCallFailed(t) == \A i \in DOMAIN calls[t] : calls[t][i].outcome = Ok
CallNames(t) == [i \in DOMAIN calls[t] |-> calls[t][i].call]
CommitCalls == <<"create_completed_order", "update_order_dispatched", "update_status">>
RecordOf(a) == [order_id |-> a.order_id, tow_truck_id |-> a.tow_truck_id,
                completed_time |-> a.order_time]
RecordsWhere(P(_)) == {i \in DOMAIN completed_orders : P(completed_orders[i])}

\* C1: under one-at-a-time execution, a commit whose three repository writes
\* all succeed returns Ok, has appended the completion record
\* (order_id, tow_truck_id, time) to the store as it was when the commit began,
\* has left the order (when that order exists) dispatched with the given
\* dispatcher and truck, and has left the truck busy.
C1_CommitSuccessPostcondition ==
    \A t \in Tasks :
        (pc[t] = "done" /\ Committing(t) /\ NoCallFailed(t)) =>
            LET a == args[t] IN
            /\ result[t] = Ok
            /\ CallNames(t) = CommitCalls
            /\ completed_orders = Append(pre[t].completed_orders, RecordOf(a))
            /\ a.order_id \in DOMAIN orders =>
                  /\ orders[a.order_id].status = "dispatched"
                  /\ orders[a.order_id].dispatcher_id = Some(a.dispatcher_id)
                  /\ orders[a.order_id].tow_truck_id = Some(a.tow_truck_id)
            /\ tow_trucks[a.tow_truck_id].status = "busy"

\* C1 witness: a commit on a pending order and an available truck returned Ok.
C1_Witness ==
    \E t \in Tasks :
        /\ pc[t] = "done" /\ Committing(t) /\ result[t] = Ok
        /\ args[t].order_id \in DOMAIN pre[t].orders
        /\ pre[t].orders[args[t].order_id].status = "pending"
        /\ pre[t].tow_trucks[args[t].tow_truck_id].status = "available"
        /\ orders[args[t].order_id].status = "dispatched"
        /\ tow_trucks[args[t].tow_truck_id].status = "busy"

\* The stores after the first k effects of commit a on the stores p.
AfterEffects(p, a, k) ==
    [completed_orders |->
        IF k >= 1 THEN p.completed_orders \o <<RecordOf(a)>> ELSE p.completed_orders,
     orders |->
        IF k >= 2 /\ a.order_id \in DOMAIN p.orders
        THEN [p.orders EXCEPT ![a.order_id] =
                 [@ EXCEPT !.status = "dispatched",
                           !.dispatcher_id = <<a.dispatcher_id>>,
                           !.tow_truck_id = <<a.tow_truck_id>>]]
        ELSE p.orders,
     tow_trucks |->
        IF k >= 3
        THEN [p.tow_trucks EXCEPT ![a.tow_truck_id] = [@ EXCEPT !.status = "busy"]]
        ELSE p.tow_trucks]

\* C2: under one-at-a-time execution, at every point of a commit the calls
\* made so far are the first calls of (create record, mark order dispatched,
\* mark truck busy) in that order, each made once; only the last call made can
\* have failed, a failed call ends the operation with an error, and the stores
\* are the stores the commit began with plus exactly the effects of the calls
\* that succeeded (none rolled back, none of the later ones applied).
C2_EffectsInOrderNoRollback ==
    \A t \in Tasks :
        Committing(t) =>
            LET n == Len(calls[t])
                k == Cardinality({i \in DOMAIN calls[t] : calls[t][i].outcome = Ok})
            IN  /\ n \in 1..3
                /\ CallNames(t) = SubSeq(CommitCalls, 1, n)
                /\ \A i \in 1..(n - 1) : calls[t][i].outcome = Ok
                /\ IsErr(LastCall(t).outcome) => (pc[t] = "done" /\ IsErr(result[t]) /\ k = n - 1)
                /\ (pc[t] = "done" /\ ~IsErr(LastCall(t).outcome)) => (n = 3 /\ result[t] = Ok)
                /\ pc[t] # "done" => pc[t] = CommitCalls[n + 1]
                /\ Stores = AfterEffects(pre[t], args[t], k)

\* C2 witness: the third write failed on an existing order: the record and
\* the dispatched order are in place and the truck is as it was.
C2_Witness ==
    \E t \in Tasks :
        /\ pc[t] = "done" /\ Committing(t) /\ Len(calls[t]) = 3
        /\ IsErr(calls[t][3].outcome) /\ IsErr(result[t])
        /\ args[t].order_id \in DOMAIN orders
        /\ orders[args[t].order_id].status = "dispatched"
        /\ pre[t].orders[args[t].order_id].status = "pending"
        /\ tow_trucks[args[t].tow_truck_id].status = "available"
        /\ Len(completed_orders) = Len(pre[t].completed_orders) + 1

\* C14: under one-at-a-time execution, at every point of a commit the trucks
\* are the trucks the commit began with except for the status of the commit's
\* truck, the orders are the orders it began with except for the status,
\* dispatcher reference and truck reference of the commit's order, and the
\* completion records it began with are all still there, unmodified, at the
\* positions they had.
C14_CommitWritesOnlyItsFields ==
    \A t \in Tasks :
        Committing(t) =>
            LET p == pre[t]
                a == args[t]
            IN  /\ DOMAIN tow_trucks = DOMAIN p.tow_trucks
                /\ \A k \in DOMAIN tow_trucks :
                       /\ tow_trucks[k].node_id = p.tow_trucks[k].node_id
                       /\ tow_trucks[k].driver_id = p.tow_trucks[k].driver_id
                       /\ tow_trucks[k].area_id = p.tow_trucks[k].area_id
                       /\ k # a.tow_truck_id => tow_trucks[k] = p.tow_trucks[k]
                /\ DOMAIN orders = DOMAIN p.orders
                /\ \A i \in DOMAIN orders :
                       /\ orders[i].client_id = p.orders[i].client_id
                       /\ orders[i].node_id = p.orders[i].node_id
                       /\ orders[i].area_id = p.orders[i].area_id
                       /\ orders[i].car_value = p.orders[i].car_value
                       /\ orders[i].order_time = p.orders[i].order_time
                       /\ orders[i].completed_time = p.orders[i].completed_time
                       /\ i # a.order_id => orders[i] = p.orders[i]
                /\ Len(completed_orders) >= Len(p.completed_orders)
                /\ SubSeq(completed_orders, 1, Len(p.completed_orders)) = p.completed_orders

\* C14 witness: a commit has returned Ok with a second order in the table, a
\* second truck, and a completion record that was there before it began.
C14_Witness ==
    \E t \in Tasks :
        /\ Committing(t) /\ pc[t] = "done" /\ result[t] = Ok
        /\ Len(orders) = 2
        /\ args[t].order_id \in DOMAIN orders
        /\ pre[t].completed_orders # << >>
        /\ orders # pre[t].orders
        /\ tow_trucks # pre[t].tow_trucks

(***************************************************************************)
(* Consistency of trucks and orders.                                       *)
(***************************************************************************)
BusyTruckHasOrder ==
    \A k \in DOMAIN tow_trucks :
        tow_trucks[k].status = "busy" =>
            \E o \in DOMAIN orders :
                orders[o].status = "dispatched" /\ orders[o].tow_truck_id = Some(k)

DispatchedOrderHasBusyTruck ==
    \A o \in DOMAIN orders :
        \A k \in DOMAIN tow_trucks :
            (orders[o].status = "dispatched" /\ orders[o].tow_truck_id = Some(k)) =>
                tow_trucks[k].status = "busy"

\* C3: whenever no commit is in mid-flight (every task is idle or has
\* returned), a truck is busy only if some order is dispatched with it, and an
\* order dispatched with a truck has that truck busy.
C3_NeverInconsistent ==
    (\A t \in Tasks : pc[t] \in {"idle", "done"}) =>
        (BusyTruckHasOrder /\ DispatchedOrderHasBusyTruck)

\* C8: a commit fails only when one of its repository calls failed: two
\* commits that have returned, for different orders and the same truck, with
\* no failed repository call, have both returned Ok, whatever the truck's
\* status was, and the store holds a completion record of that truck for each.
C8_SameTruckBothSucceed ==
    \A t, u \in Tasks :
        (/\ t # u
         /\ pc[t] = "done" /\ Committing(t) /\ NoCallFailed(t)
         /\ pc[u] = "done" /\ Committing(u) /\ NoCallFailed(u)
         /\ args[t].order_id # args[u].order_id
         /\ args[t].tow_truck_id = args[u].tow_truck_id) =>
            /\ result[t] = Ok /\ result[u] = Ok
            /\ tow_trucks[args[t].tow_truck_id].status = "busy"
            /\ RecordsWhere(LAMBDA r : r = RecordOf(args[t])) # {}
            /\ RecordsWhere(LAMBDA r : r = RecordOf(args[u])) # {}

\* C8 witness: two orders dispatched against one truck, two completion
\* records of that truck, both commits returned Ok.
C8_Witness ==
    \E t, u \in Tasks :
        /\ t # u
        /\ pc[t] = "done" /\ Committing(t) /\ result[t] = Ok
        /\ pc[u] = "done" /\ Committing(u) /\ result[u] = Ok
        /\ args[t].order_id # args[u].order_id
        /\ args[t].tow_truck_id = args[u].tow_truck_id
        /\ args[t].order_id \in DOMAIN orders /\ args[u].order_id \in DOMAIN orders
        /\ orders[args[t].order_id].status = "dispatched"
        /\ orders[args[u].order_id].status = "dispatched"
        /\ orders[args[t].order_id].tow_truck_id = Some(args[t].tow_truck_id)
        /\ orders[args[u].order_id].tow_truck_id = Some(args[t].tow_truck_id)
        /\ Cardinality(RecordsWhere(LAMBDA r : r.tow_truck_id = args[t].tow_truck_id)) = 2

\* The task t made its first call, create_completed_order, in this step and
\* the call succeeded.
RecordCreatedBy(t) ==
    /\ calls[t] = << >>
    /\ Len(calls'[t]) = 1
    /\ calls'[t][1] = [call |-> "create_completed_order", outcome |-> Ok]

\* C9: every commit whose create_completed_order call succeeds appends one
\* completion record for its order and truck, whatever the store already
\* holds for that order, and no other step adds, changes or removes a record:
\* the number of records is the number of such commits.
C9_OneRecordPerCommit ==
    [][ /\ \A t \in Tasks :
              RecordCreatedBy(t) =>
                  completed_orders' = Append(completed_orders, RecordOf(args'[t]))
        /\ (\A t \in Tasks : ~RecordCreatedBy(t)) => completed_orders' = completed_orders
      ]_vars

\* C9 witness: a second commit for an order that already had a completion
\* record returned Ok, and the store holds two records for that order.
C9_Witness ==
    \E t \in Tasks :
        /\ pc[t] = "done" /\ Committing(t) /\ result[t] = Ok
        /\ Cardinality(RecordsWhere(LAMBDA r : r.order_id = args[t].order_id)) = 2

\* C10 as stated: when a repository call of commit dispatch or of order
\* creation fails with error e, the operation returns that same error e.
C10_ErrorsUnmodified ==
    \A t \in Tasks :
        (pc[t] = "done" /\ IsErr(LastCall(t).outcome)) => result[t] = LastCall(t).outcome

\* C10 amended: a failed update_order_dispatched or update_status returns the
\* repository's error e unchanged; a failed create_completed_order or
\* create_order returns BadRequest whatever e was; in each case the failed call
\* is the last call made, and no call is made twice.
C10_ErrorsPropagated ==
    \A t \in Tasks :
        pc[t] # "idle" =>
            /\ \A i \in 1..(Len(calls[t]) - 1) : calls[t][i].outcome = Ok
            /\ \A i, j \in DOMAIN calls[t] : calls[t][i].call = calls[t][j].call => i = j
            /\ IsErr(LastCall(t).outcome) =>
                  /\ pc[t] = "done"
                  /\ result[t] =
                        IF LastCall(t).call \in {"create_completed_order", "create_order"}
                        THEN Err("BadRequest")
                        ELSE LastCall(t).outcome
            /\ (pc[t] = "done" /\ IsErr(result[t])) => IsErr(LastCall(t).outcome)

\* C10 witness: create_completed_order failed with InternalServerError and
\* the commit returned BadRequest.
C10_Witness ==
    \E t \in Tasks :
        /\ pc[t] = "done" /\ Committing(t)
        /\ LastCall(t) = [call |-> "create_completed_order",
                          outcome |-> Err("InternalServerError")]
        /\ result[t] = Err("BadRequest")

(***************************************************************************)
(* Graph::dijkstra.  Node ids, edge weights and costs are i32.             *)
(***************************************************************************)
MaxEdges == 3                   \* edges of a graph

MaxI32 == 2147483647
MinI32 == -MaxI32 - 1
NodeIds == {1, 2, 3}
Big == 2^30
Weights == {0, 1, Big}          \* non-negative edge weights

Edges == [node_a_id : NodeIds, node_b_id : NodeIds, weight : Weights]

\* Graph::add_edge: append the edge to its source node's adjacency list,
\* creating the entry if absent.
add_edge(g, edge) ==
    IF edge.node_a_id \in DOMAIN g
    THEN [g EXCEPT ![edge.node_a_id] = Append(@, edge)]
    ELSE (edge.node_a_id :> <<edge>>) @@ g

\* Graph::add_node: register the node with an empty adjacency list.
add_node(g, node_id) ==
    IF node_id \in DOMAIN g THEN g ELSE (node_id :> << >>) @@ g

RECURSIVE BuildGraph(_, _, _)
BuildGraph(g, es, i) ==
    IF i > Len(es) THEN g ELSE BuildGraph(add_edge(g, es[i]), es, i + 1)

RECURSIVE AddNodes(_, _)
AddNodes(g, ns) ==
    IF ns = {} THEN g
    ELSE LET n == CHOOSE x \in ns : TRUE IN AddNodes(add_node(g, n), ns \ {n})

\* Edge lists of up to MaxEdges edges.  Adjacency lists of different source
\* nodes do not depend on how their edges interleave in the list, so lists are
\* taken with the source nodes in non-decreasing order.
EdgeLists ==
    UNION {{es \in [1..n -> Edges] :
               \A i \in 1..(n - 1) : es[i].node_a_id <= es[i + 1].node_a_id} : n \in 0..MaxEdges}

DijkstraInit ==
    /\ \E es \in EdgeLists, ns \in {{}, NodeIds} :
          edges = BuildGraph(AddNodes(<< >>, ns), es, 1)
    /\ start_node_id \in NodeIds
    /\ distances = << >>
    /\ heap = << >>
    /\ dj_pc = "call"
    /\ DispatchInit
    /\ SelectOff
    /\ NearestOff
    /\ AuthOff

\* cost + edge.weight in i32 with the weight non-negative
Overflows(cost, weight) == cost > MaxI32 - weight
WrappingAdd(cost, weight) ==
    IF Overflows(cost, weight) THEN (cost + MinI32) + (weight + MinI32) ELSE cost + weight

\* Mutant: every node of the graph starts in the map at i32::MAX.
dijkstra_start_all_nodes ==
    /\ dj_pc = "call"
    /\ distances' = (start_node_id :> 0) @@ [n \in DOMAIN edges |-> MaxI32]
    /\ heap' = <<[node_id |-> start_node_id, cost |-> 0]>>
    /\ dj_pc' = "loop"
    /\ UNCHANGED <<edges, start_node_id>>
    /\ UNCHANGED <<dispatchVars, selectVars, nearestVars>>
    /\ UNCHANGED authVars

\* distances.insert(start_node_id, 0); heap.push(State { node_id: start_node_id, cost: 0 })
dijkstra_start ==
    /\ dj_pc = "call"
    /\ distances' = (start_node_id :> 0)
    /\ heap' = <<[node_id |-> start_node_id, cost |-> 0]>>
    /\ dj_pc' = "loop"
    /\ UNCHANGED <<edges, start_node_id>>
    /\ UNCHANGED <<dispatchVars, selectVars, nearestVars>>
    /\ UNCHANGED authVars

\* for edge in edges { next = State{edge.node_b_id, cost + edge.weight};
\*   if next.cost < distances.get(next.node_id).unwrap_or(i32::MAX) { insert; push } }
\* overflow_checks: the build panics on i32 overflow (debug) or wraps (release).
RECURSIVE relax_edges(_, _, _, _, _, _)
relax_edges(es, i, cost, dist, hp, overflow_checks) ==
    IF i > Len(es) THEN [distances |-> dist, heap |-> hp, panicked |-> FALSE]
    ELSE LET edge == es[i]
             next == [node_id |-> edge.node_b_id, cost |-> WrappingAdd(cost, edge.weight)]
             current_distance ==
                 IF next.node_id \in DOMAIN dist THEN dist[next.node_id] ELSE MaxI32
         IN  IF Overflows(cost, edge.weight) /\ overflow_checks
             THEN [distances |-> dist, heap |-> hp, panicked |-> TRUE]
             ELSE IF next.cost < current_distance
             THEN relax_edges(es, i + 1, cost, (next.node_id :> next.cost) @@ dist,
                              Append(hp, next), overflow_checks)
             ELSE relax_edges(es, i + 1, cost, dist, hp, overflow_checks)

RemoveAt(seq, i) == SubSeq(seq, 1, i - 1) \o SubSeq(seq, i + 1, Len(seq))

\* BinaryHeap::pop with Ord reversed on cost: an entry of least cost (which of
\* several equal ones is the heap's own business).
IsHeapTop(hp, i) == \A j \in DOMAIN hp : hp[i].cost <= hp[j].cost

\* One iteration of `while let Some(State { node_id, cost }) = heap.pop()`;
\* the loop ends, and dijkstra returns distances, when the heap is empty.
dijkstra_pop ==
    /\ dj_pc = "loop"
    /\ \E i \in DOMAIN heap, overflow_checks \in BOOLEAN :
          /\ IsHeapTop(heap, i)
          /\ LET node_id == heap[i].node_id
                 cost == heap[i].cost
                 rest == RemoveAt(heap, i)
                 stale == node_id \in DOMAIN distances /\ cost > distances[node_id]
                 out == IF stale \/ node_id \notin DOMAIN edges
                        THEN [distances |-> distances, heap |-> rest, panicked |-> FALSE]
                        ELSE relax_edges(edges[node_id], 1, cost, distances, rest,
                                         overflow_checks)
             IN  /\ distances' = out.distances
                 /\ heap' = out.heap
                 /\ dj_pc' = IF out.panicked THEN "panic"
                             ELSE IF out.heap = << >> THEN "done" ELSE "loop"
    /\ UNCHANGED <<edges, start_node_id>>
    /\ UNCHANGED <<dispatchVars, selectVars, nearestVars>>
    /\ UNCHANGED authVars

DijkstraNext == dijkstra_start \/ dijkstra_pop

DijkstraSpec == DijkstraInit /\ [][DijkstraNext]_vars

(***************************************************************************)
(* The selection loop of TowTruckService::get_nearest_available_tow_trucks.*)
(***************************************************************************)
MaxTrucks == 3                  \* candidate trucks in the list (ids 1..MaxTrucks)

Unreachable == 10000001
DistanceValues == {3, 5, Unreachable, Unreachable + 1}
DistanceMaps == UNION {[ns -> DistanceValues] : ns \in SUBSET NodeIds}

Range(f) == {f[i] : i \in DOMAIN f}
TruckAt(id, node_id) ==
    [id |-> id, driver_id |-> id, node_id |-> node_id, status |-> "available", area_id |-> 1]

\* Lists of distinct trucks, each at some node.  The loop reads no truck's
\* id, so the lists are taken up to a renaming of the ids: ids increase along
\* the list.
CandidateLists ==
    UNION {{[i \in 1..n |-> TruckAt(ids[i], at[i])] :
               ids \in {f \in [1..n -> 1..MaxTrucks] : \A i, j \in 1..n : i < j => f[i] < f[j]},
               at \in [1..n -> NodeIds]} : n \in 0..MaxTrucks}

\* let mut nearest_truck = None; let mut min_distance = 10000001; let mut min_truck_id = i32::MAX;
LoopStart == [nearest_truck |-> None, min_distance |-> Unreachable, min_truck_id |-> MaxI32]

SelectInit ==
    /\ distances_from_order \in DistanceMaps
    /\ candidate_trucks \in CandidateLists
    /\ truck_idx = 1
    /\ nearest_truck = LoopStart.nearest_truck
    /\ min_distance = LoopStart.min_distance
    /\ min_truck_id = LoopStart.min_truck_id
    /\ nearest_tow_truck = None
    /\ sel_pc = "loop"
    /\ DispatchInit
    /\ DijkstraOff
    /\ NearestOff
    /\ AuthOff

\* distances_from_order.get(&truck.node_id).cloned().unwrap_or(10000001)
distance_of(dist, truck) ==
    IF truck.node_id \in DOMAIN dist THEN dist[truck.node_id] ELSE Unreachable

\* Mutant: ties on distance are broken by the truck's id.
select_step_by_truck_id(dist, st, truck) ==
    LET distance == distance_of(dist, truck)
    IN  IF distance < st.min_distance
           \/ (distance = st.min_distance /\ truck.id < st.min_truck_id)
        THEN [nearest_truck |-> Some(truck), min_distance |-> distance,
              min_truck_id |-> truck.id]
        ELSE st

\* The body of `for truck in tow_trucks`.
select_step(dist, st, truck) ==
    LET distance == distance_of(dist, truck)
    IN  IF distance < st.min_distance
           \/ (distance = st.min_distance /\ truck.node_id < st.min_truck_id)
        THEN [nearest_truck |-> Some(truck), min_distance |-> distance,
              min_truck_id |-> truck.node_id]
        ELSE st

\* Mutant: the loop's truck is returned without the check on min_distance.
select_result_unchecked(st) == st.nearest_truck

\* if min_distance == 10000001 { None } else { nearest_truck }
select_result(st) ==
    IF st.min_distance = Unreachable THEN None ELSE st.nearest_truck

LoopState == [nearest_truck |-> nearest_truck, min_distance |-> min_distance,
              min_truck_id |-> min_truck_id]

\* One iteration of the loop.
select_next_truck ==
    /\ sel_pc = "loop"
    /\ truck_idx <= Len(candidate_trucks)
    /\ LET st == select_step(distances_from_order, LoopState, candidate_trucks[truck_idx])
       IN  /\ nearest_truck' = st.nearest_truck
           /\ min_distance' = st.min_distance
           /\ min_truck_id' = st.min_truck_id
    /\ truck_idx' = truck_idx + 1
    /\ UNCHANGED <<distances_from_order, candidate_trucks, nearest_tow_truck, sel_pc>>
    /\ UNCHANGED <<dispatchVars, dijkstraVars, nearestVars>>
    /\ UNCHANGED authVars

\* The loop is over: the block's value.
select_done ==
    /\ sel_pc = "loop"
    /\ truck_idx > Len(candidate_trucks)
    /\ nearest_tow_truck' = select_result(LoopState)
    /\ sel_pc' = "done"
    /\ UNCHANGED <<distances_from_order, candidate_trucks, truck_idx, nearest_truck,
                   min_distance, min_truck_id>>
    /\ UNCHANGED <<dispatchVars, dijkstraVars, nearestVars>>
    /\ UNCHANGED authVars

SelectNext == select_next_truck \/ select_done

SelectSpec == SelectInit /\ [][SelectNext]_vars

\* The whole selection on a list, as the loop computes it.
RECURSIVE SelectLoop(_, _, _, _)
SelectLoop(dist, st, trucks, i) ==
    IF i > Len(trucks) THEN select_result(st)
    ELSE SelectLoop(dist, select_step(dist, st, trucks[i]), trucks, i + 1)

Orderings(trucks) ==
    {[i \in DOMAIN trucks |-> trucks[q[i]]] :
        q \in {f \in [DOMAIN trucks -> DOMAIN trucks] : Range(f) = DOMAIN trucks}}

\* The (distance, node id) of a selection result.
Chosen(dist, r) == IF r = None THEN None ELSE <<distance_of(dist, r[1]), r[1].node_id>>

C7_NoneWhenNoReachableCandidate ==
    sel_pc = "done" =>
        /\ (\A c \in Range(candidate_trucks) : c.node_id \notin DOMAIN distances_from_order)
              => nearest_tow_truck = None
        /\ nearest_tow_truck # None =>
              /\ nearest_tow_truck[1] \in Range(candidate_trucks)
              /\ nearest_tow_truck[1].node_id \in DOMAIN distances_from_order

\* C7 witness: candidates were listed, none at a node of the distance map,
\* and the selection returned None.
C7_Witness ==
    /\ sel_pc = "done"
    /\ candidate_trucks # << >>
    /\ distances_from_order # << >>
    /\ \A c \in Range(candidate_trucks) : c.node_id \notin DOMAIN distances_from_order
    /\ nearest_tow_truck = None

\* C15: when the loop is over and at least one candidate truck's node id is a
\* key of the distance map (the truck is reachable from the order's node, at
\* whatever cost, the costs at and above 10000001 included), the selection's
\* value is a truck and not none.
C15_ReachableCandidateReturned ==
    sel_pc = "done" =>
        ((\E i \in DOMAIN candidate_trucks :
              candidate_trucks[i].node_id \in DOMAIN distances_from_order)
         => nearest_tow_truck # None)

(***************************************************************************)
(* The true shortest distances, computed apart from the code: path totals  *)
(* are kept as <<multiples of Big, remainder>> so that totals beyond i32   *)
(* stay exact, and are relaxed over every edge once per node (Bellman-Ford).*)
(***************************************************************************)
Total(w) == <<w \div Big, w % Big>>
TotalAdd(a, b) == <<a[1] + b[1], a[2] + b[2]>>
TotalLess(a, b) == a[1] < b[1] \/ (a[1] = b[1] /\ a[2] < b[2])
Least(S) == CHOOSE a \in S : \A b \in S : ~TotalLess(b, a)

Arrivals(D, v) ==
    (IF v \in DOMAIN D THEN {D[v]} ELSE {}) \cup
    {TotalAdd(D[u], Total(edges[u][i].weight)) :
        <<u, i>> \in {<<u, i>> \in (DOMAIN D \cap DOMAIN edges) \X (1..MaxEdges) :
                         i <= Len(edges[u]) /\ edges[u][i].node_b_id = v}}

RelaxAll(D) ==
    LET reached == {v \in NodeIds : Arrivals(D, v) # {}}
    IN  [v \in reached |-> Least(Arrivals(D, v))]

RECURSIVE RelaxRounds(_, _)
RelaxRounds(D, k) == IF k = 0 THEN D ELSE RelaxRounds(RelaxAll(D), k - 1)

TrueDistances == RelaxRounds((start_node_id :> <<0, 0>>), Cardinality(NodeIds))

RECURSIVE ReachableFrom(_)
ReachableFrom(S) ==
    LET more == S \cup {edges[u][i].node_b_id :
                          <<u, i>> \in {<<u, i>> \in (S \cap DOMAIN edges) \X (1..MaxEdges) :
                                           i <= Len(edges[u])}}
    IN  IF more = S THEN S ELSE ReachableFrom(more)

BigEdges ==
    {<<u, i>> \in (DOMAIN edges) \X (1..MaxEdges) :
        i <= Len(edges[u]) /\ edges[u][i].weight = Big}

\* C4: the map dijkstra returns gives the start node 0 and gives every node
\* in it the least total weight of a directed path from the start node.
C4_DijkstraMinimal ==
    dj_pc = "done" =>
        /\ distances[start_node_id] = 0
        /\ \A n \in DOMAIN distances :
              n \in DOMAIN TrueDistances /\ Total(distances[n]) = TrueDistances[n]

\* With at most one edge of weight Big no sum cost + weight leaves i32, and
\* dijkstra then returns the least totals.
DijkstraMinimalWithoutOverflow ==
    Cardinality(BigEdges) <= 1 =>
        /\ dj_pc # "panic"
        /\ C4_DijkstraMinimal

Statuses == {"available", "busy"}
AreaIds == {1, 2}

\* Result<Option<TowTruckDto>, AppError>::Ok(v)
OkValue(v) == <<"Ok", "value", v>>

\* A table row with its primary key.
Row(table, id) == [id |-> id] @@ table[id]

\* The orderings of a set of rows as a list.
Listings(rows) ==
    {l \in [1..Cardinality(rows) -> rows] : \A i, j \in DOMAIN l : i # j => l[i] # l[j]}

\* TowTruckRepository::get_paginated_tow_trucks(page, page_size, status, area_id):
\* the trucks with that status (when given) in that area (when given); a
\* page_size of -1 asks for every row.  The rows come in any order.
get_paginated_tow_trucks(ts, page, page_size, status, area) ==
    Listings({Row(ts, i) : i \in {k \in DOMAIN ts :
                  /\ status # None => ts[k].status = status[1]
                  /\ area # None => ts[k].area_id = area[1]}})

\* MapRepository::get_all_nodes(area_id): the node ids of that area
get_all_nodes(area) ==
    {n \in DOMAIN AreaOfNode : area # None => AreaOfNode[n] = area[1]}

\* MapRepository::get_all_edges(area_id): the edges leaving a node of that area
get_all_edges(et, area) ==
    SelectSeq(et, LAMBDA e : e.node_a_id \in get_all_nodes(area))

\* TowTruckDto::from_entity
from_entity(truck) ==
    [id |-> truck.id, status |-> truck.status, node_id |-> truck.node_id,
     area_id |-> truck.area_id, driver_id |-> truck.driver_id]

Edge(a, b, w) == [node_a_id |-> a, node_b_id |-> b, weight |-> w]

\* The road maps searched.
EdgeTables ==
    { << >>,
      <<Edge(1, 2, 4), Edge(2, 3, 1)>>,
      <<Edge(1, 2, 1), Edge(2, 1, 1)>>,
      <<Edge(1, 3, 1), Edge(1, 2, 1), Edge(3, 2, 0)>> }

NearestInit ==
    /\ orders \in [InitialOrders ->
                      [client_id : ClientIds, node_id : DOMAIN AreaOfNode, area_id : {1},
                       status : {"pending"}, car_value : CarValues, dispatcher_id : {None},
                       tow_truck_id : {None}, order_time : {OrderTime},
                       completed_time : {None}]]
    /\ tow_trucks \in [TowTruckIds ->
                          [driver_id : {1}, node_id : NodeIds, area_id : AreaIds,
                           status : Statuses]]
    /\ completed_orders \in {<< >>, <<[order_id |-> 1, tow_truck_id |-> 1,
                                       completed_time |-> 1]>>}
    /\ pc = [t \in Tasks |-> "idle"]
    /\ args = [t \in Tasks |-> << >>]
    /\ result = [t \in Tasks |-> << >>]
    /\ calls = [t \in Tasks |-> << >>]
    /\ pre = [t \in Tasks |-> << >>]
    /\ ops = 0
    /\ edge_table \in EdgeTables
    /\ order = << >>
    /\ area_id = 0
    /\ nodes = {}
    /\ DijkstraOff
    /\ SelectOff
    /\ AuthOff

NearestArgs == [op : {"get_nearest_available_tow_trucks"}, order_id : 1..MaxOrders]

\* A request get_nearest_available_tow_trucks(order_id) arrives and runs to its
\* first await: let order = self.order_repository.find_order_by_id(order_id).await?;
\* (fetch_one: no row is an error)
nearest_find_order_by_id(t, a, p) ==
    /\ NoneRunning
    /\ pre' = [pre EXCEPT ![t] = p]
    /\ ops < MaxOps
    /\ ops' = ops + 1
    /\ args' = [args EXCEPT ![t] = a]
    /\ \/ /\ a.order_id \in DOMAIN orders
          /\ order' = Row(orders, a.order_id)
          /\ Logged(t, "find_order_by_id", Ok)
          /\ pc' = [pc EXCEPT ![t] = "get_area_id_by_node_id"]
          /\ UNCHANGED result
       \/ /\ \E e \in Errors :
                /\ Logged(t, "find_order_by_id", Err(e))
                /\ Returns(t, Err(e))
          /\ UNCHANGED order
    /\ UNCHANGED <<orders, tow_trucks, completed_orders>>
    /\ UNCHANGED <<edge_table, area_id, nodes>>
    /\ UNCHANGED <<dijkstraVars, selectVars>>
    /\ UNCHANGED authVars

\* let area_id = self.map_repository.get_area_id_by_node_id(order.node_id).await?;
nearest_get_area_id_by_node_id(t) ==
    /\ pc[t] = "get_area_id_by_node_id"
    /\ \/ /\ NodeKnown(order.node_id)
          /\ area_id' = AreaOfNode[order.node_id]
          /\ Logged(t, "get_area_id_by_node_id", Ok)
          /\ pc' = [pc EXCEPT ![t] = "get_paginated_tow_trucks"]
          /\ UNCHANGED result
       \/ /\ \E e \in Errors :
                /\ Logged(t, "get_area_id_by_node_id", Err(e))
                /\ Returns(t, Err(e))
          /\ UNCHANGED area_id
    /\ UNCHANGED <<orders, tow_trucks, completed_orders, args, pre, ops>>
    /\ UNCHANGED <<edge_table, order, nodes>>
    /\ UNCHANGED <<dijkstraVars, selectVars>>
    /\ UNCHANGED authVars

\* Mutant: the listing is asked for the area's trucks of every status.
nearest_get_paginated_tow_trucks_any_status(t) ==
    /\ pc[t] = "get_paginated_tow_trucks"
    /\ \/ /\ candidate_trucks' \in
                 get_paginated_tow_trucks(tow_trucks, 0, -1, None, Some(area_id))
          /\ Logged(t, "get_paginated_tow_trucks", Ok)
          /\ pc' = [pc EXCEPT ![t] = "get_all_nodes"]
          /\ UNCHANGED result
       \/ /\ \E e \in Errors :
                /\ Logged(t, "get_paginated_tow_trucks", Err(e))
                /\ Returns(t, Err(e))
          /\ UNCHANGED candidate_trucks
    /\ UNCHANGED <<orders, tow_trucks, completed_orders, args, pre, ops>>
    /\ UNCHANGED nearestVars
    /\ UNCHANGED dijkstraVars
    /\ UNCHANGED <<distances_from_order, truck_idx, nearest_truck, min_distance,
                   min_truck_id, nearest_tow_truck, sel_pc>>
    /\ UNCHANGED authVars

\* let tow_trucks = self.tow_truck_repository
\*     .get_paginated_tow_trucks(0, -1, Some("available".to_string()), Some(area_id)).await?;
nearest_get_paginated_tow_trucks(t) ==
    /\ pc[t] = "get_paginated_tow_trucks"
    /\ \/ /\ candidate_trucks' \in
                 get_paginated_tow_trucks(tow_trucks, 0, -1, Some("available"), Some(area_id))
          /\ Logged(t, "get_paginated_tow_trucks", Ok)
          /\ pc' = [pc EXCEPT ![t] = "get_all_nodes"]
          /\ UNCHANGED result
       \/ /\ \E e \in Errors :
                /\ Logged(t, "get_paginated_tow_trucks", Err(e))
                /\ Returns(t, Err(e))
          /\ UNCHANGED candidate_trucks
    /\ UNCHANGED <<orders, tow_trucks, completed_orders, args, pre, ops>>
    /\ UNCHANGED nearestVars
    /\ UNCHANGED dijkstraVars
    /\ UNCHANGED <<distances_from_order, truck_idx, nearest_truck, min_distance,
                   min_truck_id, nearest_tow_truck, sel_pc>>
    /\ UNCHANGED authVars

\* let nodes = self.map_repository.get_all_nodes(Some(area_id)).await?;
nearest_get_all_nodes(t) ==
    /\ pc[t] = "get_all_nodes"
    /\ \/ /\ nodes' = get_all_nodes(Some(area_id))
          /\ Logged(t, "get_all_nodes", Ok)
          /\ pc' = [pc EXCEPT ![t] = "get_all_edges"]
          /\ UNCHANGED result
       \/ /\ \E e \in Errors :
                /\ Logged(t, "get_all_nodes", Err(e))
                /\ Returns(t, Err(e))
          /\ UNCHANGED nodes
    /\ UNCHANGED <<orders, tow_trucks, completed_orders, args, pre, ops>>
    /\ UNCHANGED <<edge_table, order, area_id>>
    /\ UNCHANGED <<dijkstraVars, selectVars>>
    /\ UNCHANGED authVars

\* let edges = self.map_repository.get_all_edges(Some(area_id)).await?;
\* then, with no further await: the graph is built from the nodes and the
\* edges, and graph.dijkstra(order.node_id) is called.
nearest_get_all_edges(t) ==
    /\ pc[t] = "get_all_edges"
    /\ \/ /\ edges' = BuildGraph(AddNodes(<< >>, nodes), get_all_edges(edge_table, Some(area_id)), 1)
          /\ start_node_id' = order.node_id
          /\ dj_pc' = "call"
          /\ Logged(t, "get_all_edges", Ok)
          /\ pc' = [pc EXCEPT ![t] = "dijkstra"]
          /\ UNCHANGED result
       \/ /\ \E e \in Errors :
                /\ Logged(t, "get_all_edges", Err(e))
                /\ Returns(t, Err(e))
          /\ UNCHANGED <<edges, start_node_id, dj_pc>>
    /\ UNCHANGED <<orders, tow_trucks, completed_orders, args, pre, ops>>
    /\ UNCHANGED <<distances, heap>>
    /\ UNCHANGED <<selectVars, nearestVars>>
    /\ UNCHANGED authVars

\* let distances_from_order = graph.dijkstra(order.node_id); the loop's
\* variables are initialised.
nearest_select(t) ==
    /\ pc[t] = "dijkstra"
    /\ dj_pc = "done"
    /\ pc' = [pc EXCEPT ![t] = "select"]
    /\ distances_from_order' = distances
    /\ truck_idx' = 1
    /\ nearest_truck' = LoopStart.nearest_truck
    /\ min_distance' = LoopStart.min_distance
    /\ min_truck_id' = LoopStart.min_truck_id
    /\ sel_pc' = "loop"
    /\ UNCHANGED <<candidate_trucks, nearest_tow_truck>>
    /\ UNCHANGED <<orders, tow_trucks, completed_orders, args, result, calls, pre, ops>>
    /\ UNCHANGED <<dijkstraVars, nearestVars>>
    /\ UNCHANGED authVars

\* Mutant: the truck found is marked busy before it is returned.
nearest_return_reserving(t) ==
    /\ pc[t] = "select"
    /\ sel_pc = "done"
    /\ Returns(t, IF nearest_tow_truck # None
                  THEN OkValue(Some(from_entity(nearest_tow_truck[1])))
                  ELSE OkValue(None))
    /\ tow_trucks' = IF nearest_tow_truck # None
                     THEN update_status(tow_trucks, nearest_tow_truck[1].id, "busy")
                     ELSE tow_trucks
    /\ UNCHANGED <<orders, completed_orders, args, calls, pre, ops>>
    /\ UNCHANGED <<dijkstraVars, selectVars, nearestVars>>
    /\ UNCHANGED authVars

\* if let Some(truck) = nearest_tow_truck { Ok(Some(TowTruckDto::from_entity(truck))) }
\* else { Ok(None) }
nearest_return(t) ==
    /\ pc[t] = "select"
    /\ sel_pc = "done"
    /\ Returns(t, IF nearest_tow_truck # None
                  THEN OkValue(Some(from_entity(nearest_tow_truck[1])))
                  ELSE OkValue(None))
    /\ UNCHANGED <<orders, tow_trucks, completed_orders, args, calls, pre, ops>>
    /\ UNCHANGED <<dijkstraVars, selectVars, nearestVars>>
    /\ UNCHANGED authVars

NearestNext ==
    \/ \E t \in Tasks :
        \/ \E a \in NearestArgs : nearest_find_order_by_id(t, a, Stores)
        \/ nearest_get_area_id_by_node_id(t)
        \/ nearest_get_paginated_tow_trucks(t)
        \/ nearest_get_all_nodes(t)
        \/ nearest_get_all_edges(t)
        \/ nearest_select(t)
        \/ nearest_return(t)
    \/ dijkstra_start
    \/ dijkstra_pop
    \/ select_next_truck
    \/ select_done

NearestSpec == NearestInit /\ [][NearestNext]_vars

(***************************************************************************)
(* Find nearest candidate: what it reads and what it returns.              *)
(***************************************************************************)
Searching(t) == pc[t] # "idle" /\ args[t].op = "get_nearest_available_tow_trucks"
NearestCalls == <<"find_order_by_id", "get_area_id_by_node_id", "get_paginated_tow_trucks",
                  "get_all_nodes", "get_all_edges">>
Returned(t) == pc[t] = "done" /\ ~IsErr(result[t])
ReturnedTruck(t) == Returned(t) /\ result[t][3] # None

\* C11: at every point of a nearest-truck search (whether it goes on to return
\* a truck, none, or an error) the orders, trucks and completion records are
\* the ones the search began with; the collaborator calls made so far are the
\* first calls of the five reads in their order, only the last call made can
\* have failed, and a failed call ends the search with that error.
C11_NearestReadOnly ==
    \A t \in Tasks :
        Searching(t) =>
            LET n == Len(calls[t])
            IN  /\ Stores = pre[t]
                /\ n \in 1..5
                /\ CallNames(t) = SubSeq(NearestCalls, 1, n)
                /\ \A i \in 1..(n - 1) : calls[t][i].outcome = Ok
                /\ IsErr(LastCall(t).outcome) =>
                       (pc[t] = "done" /\ result[t] = LastCall(t).outcome)
                /\ Returned(t) => (n = 5 /\ NoCallFailed(t))

\* C11 witness: a search over existing completion records has returned a truck
\* after its five reads.
C11_Witness ==
    \E t \in Tasks :
        /\ Searching(t) /\ ReturnedTruck(t)
        /\ Len(calls[t]) = 5
        /\ completed_orders # << >>

\* C12: a truck returned by a nearest-truck search is one of the rows of the
\* listing the search read; in the trucks table as it was at that read the
\* truck has status "available" and the area resolved from the order's node.
C12_ReturnedTruckAvailableInArea ==
    \A t \in Tasks :
        (Searching(t) /\ ReturnedTruck(t)) =>
            LET dto == result[t][3][1]
            IN  /\ \E i \in DOMAIN candidate_trucks : from_entity(candidate_trucks[i]) = dto
                /\ dto.id \in DOMAIN pre[t].tow_trucks
                /\ Row(pre[t].tow_trucks, dto.id).status = "available"
                /\ Row(pre[t].tow_trucks, dto.id).area_id = AreaOfNode[order.node_id]
                /\ area_id = AreaOfNode[order.node_id]

\* C12 witness: a truck is returned while the other truck, busy and of the
\* same area, is strictly closer to the order.
C12_Witness ==
    \E t \in Tasks :
        /\ Searching(t) /\ ReturnedTruck(t)
        /\ LET dto == result[t][3][1]
           IN  \E k \in DOMAIN tow_trucks :
                   /\ tow_trucks[k].status = "busy" /\ tow_trucks[k].area_id = area_id
                   /\ tow_trucks[k].node_id \in DOMAIN distances_from_order
                   /\ distances_from_order[tow_trucks[k].node_id]
                          < distances_from_order[dto.node_id]

(***************************************************************************)
(* OrderService::update_order_status.                                      *)
(***************************************************************************)
StatusValues == {"pending", "dispatched", "completed", "towing"}   \* &str the caller passes

\* UPDATE orders SET status = ? WHERE id = ?
update_order_status(os, order_id, status) ==
    [i \in DOMAIN os |-> IF i = order_id THEN [os[i] EXCEPT !.status = status] ELSE os[i]]

\* The order's status may go to the new one along pending -> dispatched -> completed.
InLifecycle(from, to) ==
    <<from, to>> \in {<<"pending", "dispatched">>, <<"dispatched", "completed">>}

\* Mutant: the service refuses a transition outside the lifecycle.
order_update_order_status_checked(t, a, p) ==
    /\ pc[t] = "idle"
    /\ pre' = [pre EXCEPT ![t] = p]
    /\ ops < MaxOps
    /\ ops' = ops + 1
    /\ args' = [args EXCEPT ![t] = a]
    /\ IF a.order_id \in DOMAIN orders /\ ~InLifecycle(orders[a.order_id].status, a.status)
       THEN /\ Returns(t, Err("BadRequest"))
            /\ UNCHANGED <<orders, calls>>
       ELSE \/ /\ orders' = update_order_status(orders, a.order_id, a.status)
               /\ Logged(t, "update_order_status", Ok)
               /\ Returns(t, Ok)
            \/ /\ \E e \in Errors :
                     /\ Logged(t, "update_order_status", Err(e))
                     /\ Returns(t, Err(e))
               /\ UNCHANGED orders
    /\ UNCHANGED <<tow_trucks, completed_orders>>
    /\ UNCHANGED <<dijkstraVars, selectVars, nearestVars>>
    /\ UNCHANGED authVars

\* A request update_order_status(order_id, status) arrives:
\* self.order_repository.update_order_status(order_id, status).await
order_update_order_status(t, a, p) ==
    /\ pc[t] = "idle"
    /\ pre' = [pre EXCEPT ![t] = p]
    /\ ops < MaxOps
    /\ ops' = ops + 1
    /\ args' = [args EXCEPT ![t] = a]
    /\ \/ /\ orders' = update_order_status(orders, a.order_id, a.status)
          /\ Logged(t, "update_order_status", Ok)
          /\ Returns(t, Ok)
       \/ /\ \E e \in Errors :
                /\ Logged(t, "update_order_status", Err(e))
                /\ Returns(t, Err(e))
          /\ UNCHANGED orders
    /\ UNCHANGED <<tow_trucks, completed_orders>>
    /\ UNCHANGED <<dijkstraVars, selectVars, nearestVars>>
    /\ UNCHANGED authVars

StatusArgs == [op : {"update_order_status"}, order_id : 1..MaxOrders, status : StatusValues]

\* The order operations, one request at a time.
StatusNext ==
    \E t \in Tasks :
        \/ \E a \in StatusArgs : NoneRunning /\ order_update_order_status(t, a, Stores)
        \/ \E a \in DispatchArgs : NoneRunning /\ dispatch_create_completed_order(t, a, Stores)
        \/ \E a \in ClientArgs : NoneRunning /\ client_create_order(t, a, Stores)
        \/ dispatch_update_order_dispatched(t)
        \/ dispatch_update_status(t)
        \/ return_to_caller(t)

StatusSpec == Init /\ [][StatusNext]_vars

Updating(t) == pc[t] # "idle" /\ args[t].op = "update_order_status"
OtherFields(o) == [f \in DOMAIN o \ {"status"} |-> o[f]]

\* C13: a status update makes exactly one repository call and returns that
\* call's outcome: the service refuses nothing itself.  When the call
\* succeeds, the order with the given id (if any) has the given status,
\* whatever its status was and whatever the new value is, its other fields
\* are as they were, and every other order, every truck and every completion
\* record is as it was; when the call fails the stores are as they were.
C13_StatusUpdateUnconditional ==
    \A t \in Tasks :
        Updating(t) =>
            /\ pc[t] = "done"
            /\ CallNames(t) = <<"update_order_status">>
            /\ result[t] = calls[t][1].outcome
            /\ tow_trucks = pre[t].tow_trucks
            /\ completed_orders = pre[t].completed_orders
            /\ DOMAIN orders = DOMAIN pre[t].orders
            /\ IsErr(result[t]) => orders = pre[t].orders
            /\ result[t] = Ok =>
                   \A i \in DOMAIN orders :
                       /\ OtherFields(orders[i]) = OtherFields(pre[t].orders[i])
                       /\ orders[i].status = IF i = args[t].order_id THEN args[t].status
                                             ELSE pre[t].orders[i].status

\* C13 witness: a dispatched order has been set back to pending while its
\* truck is busy, next to a second order left as it was.
C13_Witness ==
    \E t \in Tasks :
        /\ Updating(t) /\ result[t] = Ok
        /\ args[t].order_id \in DOMAIN orders
        /\ Len(orders) = 2
        /\ pre[t].orders[args[t].order_id].status = "dispatched"
        /\ orders[args[t].order_id].status = "pending"
        /\ orders[args[t].order_id].tow_truck_id # None
        /\ tow_trucks[orders[args[t].order_id].tow_truck_id[1]].status = "busy"

(***************************************************************************)
(* OrderService::get_order_by_id and OrderService::get_paginated_orders    *)
(* over the orders, users, dispatchers and tow_trucks tables.              *)
(***************************************************************************)
UserIds == {1, 2, 3}
DispatcherRowIds == {1, 2}
Usernames == (1 :> "user1") @@ (2 :> "user2") @@ (3 :> "user3")
Panic == <<"Panic">>            \* unwrap() on None or on Err

\* SELECT * FROM orders WHERE id = ? (fetch_one)
find_order_by_id(os, id) == IF id \in DOMAIN os THEN Some(Row(os, id)) ELSE None

\* SELECT * FROM users WHERE id = ? (fetch_optional)
find_user_by_id(us, id) == IF id \in DOMAIN us THEN Some(Row(us, id)) ELSE None

\* SELECT * FROM users WHERE id IN (...)
find_users_by_ids(us, ids) == {Row(us, i) : i \in DOMAIN us \cap ids}

\* SELECT * FROM dispatchers WHERE id = ? (fetch_optional)
find_dispatcher_by_id(ds, id) == IF id \in DOMAIN ds THEN Some(Row(ds, id)) ELSE None

\* SELECT * FROM dispatchers WHERE id IN (...)
find_dispatchers_by_ids(ds, ids) == {Row(ds, i) : i \in DOMAIN ds \cap ids}

\* TowTruckRepository::find_tow_truck_by_id
find_tow_truck_by_id(ts, id) == IF id \in DOMAIN ts THEN Some(Row(ts, id)) ELSE None

\* TowTruckRepository::find_tow_truck_by_ids
find_tow_truck_by_ids(ts, ids) == {Row(ts, i) : i \in DOMAIN ts \cap ids}

\* SELECT ... FROM orders o [WHERE o.status = ? AND o.area_id = ?]
\* ORDER BY o.order_time ASC LIMIT page_size OFFSET page * page_size
\* (rows of equal order_time in id order)
get_paginated_orders(os, page, page_size, status, area) ==
    LET offset == page * page_size
        rows == SelectSeq([i \in 1..Len(os) |-> Row(os, i)],
                          LAMBDA o : /\ status # None => o.status = status[1]
                                     /\ area # None => o.area_id = area[1])
        last == IF offset + page_size < Len(rows) THEN offset + page_size ELSE Len(rows)
    IN  SubSeq(rows, offset + 1, last)

\* HashMap::get
Get(map, key) == IF key \in DOMAIN map THEN Some(map[key]) ELSE None

\* clients.into_iter().map(|user| (user.id, user)).collect()
client_map_of(clients) ==
    [k \in {u.id : u \in clients} |-> CHOOSE u \in clients : u.id = k]

\* dispatchers.into_iter().map(|dispatcher| (dispatcher.user_id, dispatcher)).collect()
dispatcher_map_of(ds) ==
    [k \in {d.user_id : d \in ds} |-> CHOOSE d \in ds : d.user_id = k]

\* tow_trucks.into_iter().map(|tow_truck| (tow_truck.id, tow_truck)).collect()
tow_truck_map_of(ts) ==
    [k \in {x.id : x \in ts} |-> CHOOSE x \in ts : x.id = k]

\* Option::map(|user| user.username.clone())
UsernameOf(user) == IF user = None THEN None ELSE Some(user[1].username)

OrderDto(o, client_username, dispatcher, driver) ==
    [id |-> o.id, client_id |-> o.client_id, client_username |-> client_username,
     dispatcher_id |-> o.dispatcher_id,
     dispatcher_user_id |-> dispatcher[1], dispatcher_username |-> dispatcher[2],
     tow_truck_id |-> o.tow_truck_id,
     driver_user_id |-> driver[1], driver_username |-> driver[2],
     area_id |-> o.area_id, status |-> o.status, node_id |-> o.node_id,
     car_value |-> o.car_value, order_time |-> o.order_time,
     completed_time |-> o.completed_time]

\* get_order_by_id after its order is loaded: the client's, the dispatcher's
\* and the driver's lookups, each unwrapped.
order_dto_by_id(o, us, ds, ts) ==
    LET client == find_user_by_id(us, o.client_id)
        dispatcher == IF o.dispatcher_id # None
                      THEN find_dispatcher_by_id(ds, o.dispatcher_id[1]) ELSE None
        dispatcher_user == IF dispatcher # None
                           THEN find_user_by_id(us, dispatcher[1].user_id) ELSE None
        tow_truck == IF o.tow_truck_id # None
                     THEN find_tow_truck_by_id(ts, o.tow_truck_id[1]) ELSE None
        driver_user == IF tow_truck # None
                       THEN find_user_by_id(us, tow_truck[1].driver_id) ELSE None
    IN  IF \/ client = None
           \/ dispatcher # None /\ dispatcher_user = None
           \/ tow_truck # None /\ driver_user = None
        THEN Panic
        ELSE OkValue(OrderDto(o, Some(client[1].username),
                 IF dispatcher # None
                 THEN <<Some(dispatcher[1].user_id), Some(dispatcher_user[1].username)>>
                 ELSE <<None, None>>,
                 IF tow_truck # None
                 THEN <<Some(tow_truck[1].driver_id), Some(driver_user[1].username)>>
                 ELSE <<None, None>>))

\* get_paginated_orders after its page of orders is loaded: the three bulk
\* reads, the three maps, and one OrderDto per order.
paginated_order_dtos(page_orders, us, ds, ts) ==
    LET client_ids == {page_orders[i].client_id : i \in DOMAIN page_orders}
        dispatcher_ids == {page_orders[i].dispatcher_id[1] :
                              i \in {k \in DOMAIN page_orders : page_orders[k].dispatcher_id # None}}
        tow_truck_ids == {page_orders[i].tow_truck_id[1] :
                             i \in {k \in DOMAIN page_orders : page_orders[k].tow_truck_id # None}}
        client_map == client_map_of(find_users_by_ids(us, client_ids))
        dispatcher_map == dispatcher_map_of(find_dispatchers_by_ids(ds, dispatcher_ids))
        tow_truck_map == tow_truck_map_of(find_tow_truck_by_ids(ts, tow_truck_ids))
    IN  [i \in DOMAIN page_orders |->
            LET o == page_orders[i]
                dispatcher == IF o.dispatcher_id # None
                              THEN Get(dispatcher_map, o.dispatcher_id[1]) ELSE None
                tow_truck == IF o.tow_truck_id # None
                             THEN Get(tow_truck_map, o.tow_truck_id[1]) ELSE None
            IN  OrderDto(o, UsernameOf(Get(client_map, o.client_id)),
                    IF dispatcher # None
                    THEN <<Some(dispatcher[1].user_id),
                           UsernameOf(Get(client_map, dispatcher[1].user_id))>>
                    ELSE <<None, None>>,
                    IF tow_truck # None
                    THEN <<Some(tow_truck[1].driver_id),
                           UsernameOf(Get(client_map, tow_truck[1].driver_id))>>
                    ELSE <<None, None>>)]

\* A request get_order_by_id(id) arrives.  find_order_by_id(id).await? returns
\* its error; a failure of any later read is unwrapped.
order_get_order_by_id(t, a, p) ==
    /\ pc[t] = "idle"
    /\ pre' = [pre EXCEPT ![t] = p]
    /\ args' = [args EXCEPT ![t] = a]
    /\ \/ /\ find_order_by_id(orders, a.id) # None
          /\ Returns(t, order_dto_by_id(find_order_by_id(orders, a.id)[1],
                                        users, dispatchers, tow_trucks))
       \/ /\ find_order_by_id(orders, a.id) # None
          /\ Returns(t, Panic)
       \/ \E e \in Errors : Returns(t, Err(e))
    /\ UNCHANGED <<orders, tow_trucks, completed_orders, calls, ops>>
    /\ UNCHANGED <<dijkstraVars, selectVars, nearestVars, authVars>>

\* A request get_paginated_orders(page, page_size, sort_by, sort_order, status, area)
\* arrives; each of its four reads ends with `?`.
order_get_paginated_orders(t, a, p) ==
    /\ pc[t] = "idle"
    /\ pre' = [pre EXCEPT ![t] = p]
    /\ args' = [args EXCEPT ![t] = a]
    /\ \/ Returns(t, OkValue(paginated_order_dtos(
                  get_paginated_orders(orders, a.page, a.page_size, a.status, a.area),
                  users, dispatchers, tow_trucks)))
       \/ \E e \in Errors : Returns(t, Err(e))
    /\ UNCHANGED <<orders, tow_trucks, completed_orders, calls, ops>>
    /\ UNCHANGED <<dijkstraVars, selectVars, nearestVars, authVars>>

ByIdArgs == [op : {"get_order_by_id"}, id : 1..3]
ListingArgs == [op : {"get_paginated_orders"}, page : {0, 1}, page_size : {1, 2},
                status : {None, Some("dispatched")}, area : {None, Some(1)}]

\* An order as create_order leaves it, or as update_order_dispatched leaves it.
OrderRows ==
    [client_id : {1, 2}, node_id : {1}, area_id : {1}, status : {"pending"},
     car_value : CarValues, dispatcher_id : {None}, tow_truck_id : {None},
     order_time : {OrderTime}, completed_time : {None}]
    \cup
    [client_id : {1, 2}, node_id : {1}, area_id : {1}, status : {"dispatched"},
     car_value : CarValues, dispatcher_id : {Some(d) : d \in DispatcherRowIds},
     tow_truck_id : {Some(k) : k \in TowTruckIds},
     order_time : {OrderTime}, completed_time : {None}]

ListingInit ==
    /\ orders \in [1..1 -> OrderRows] \cup [1..2 -> OrderRows]
    /\ tow_trucks \in [TowTruckIds ->
                          [driver_id : {2, 3}, node_id : {1}, area_id : {1}, status : {"busy"}]]
    /\ completed_orders = << >>
    /\ users = [i \in UserIds |-> [username |-> Usernames[i]]]
    /\ dispatchers \in {ds \in [DispatcherRowIds -> [user_id : UserIds]] :
                           \A i, j \in DispatcherRowIds : i # j => ds[i].user_id # ds[j].user_id}
    /\ pc = [t \in Tasks |-> "idle"]
    /\ args = [t \in Tasks |-> << >>]
    /\ result = [t \in Tasks |-> << >>]
    /\ calls = [t \in Tasks |-> << >>]
    /\ pre = [t \in Tasks |-> << >>]
    /\ ops = 0
    /\ DijkstraOff
    /\ SelectOff
    /\ NearestOff

ListingNext ==
    \E t \in Tasks :
        \/ \E a \in ByIdArgs : NoneRunning /\ order_get_order_by_id(t, a, Stores)
        \/ \E a \in ListingArgs : NoneRunning /\ order_get_paginated_orders(t, a, Stores)
        \/ return_to_caller(t)

ListingSpec == ListingInit /\ [][ListingNext]_vars

Listed(t) == pc[t] = "done" /\ args[t].op = "get_paginated_orders" /\ ~IsErr(result[t])

\* C16: every OrderDto of a page returned by get_paginated_orders has the
\* dispatcher_user_id, dispatcher_username, driver_user_id and driver_username
\* that get_order_by_id returns for the order of that id over the same tables.
C16_ListingMatchesLookup ==
    \A t \in Tasks :
        Listed(t) =>
            \A i \in DOMAIN result[t][3] :
                LET listed == result[t][3][i]
                    one == order_dto_by_id(find_order_by_id(orders, listed.id)[1],
                                           users, dispatchers, tow_trucks)
                IN  /\ one # Panic
                    /\ listed.dispatcher_user_id = one[3].dispatcher_user_id
                    /\ listed.dispatcher_username = one[3].dispatcher_username
                    /\ listed.driver_user_id = one[3].driver_user_id
                    /\ listed.driver_username = one[3].driver_username

====
